---- MODULE Spec2Model ----
(***************************************************************************)
(* Model of src/app.py: ChatServer, a thread-per-connection chat server.   *)
(*                                                                         *)
(* Every accepted connection is served by its own thread running           *)
(* handle_client; all threads share the dict self.clients and the list     *)
(* self.chat_history without any lock.  One action of this module is one   *)
(* access of a thread to shared state (the registry, the log, a socket):   *)
(* CPython may switch threads between any two of them (sendall, recv and   *)
(* select release the interpreter lock; the loops are preemptible).        *)
(*                                                                         *)
(* A connection and the thread serving it carry the same identifier.       *)
(* self.clients is modelled as CPython keeps it: an insertion-ordered      *)
(* entry array in which a deletion leaves a hole, with the iterator        *)
(* checks of dictiter_iternextitem (size changed / keys changed).          *)
(* Timestamps of log entries are left out.  The shutdown path of start()    *)
(* (lines 165-177) and the end of the process are actions of the second    *)
(* specification, Shutdown; under Spec self.running stays True once set.   *)
(***************************************************************************)
EXTENDS Integers, Sequences, FiniteSets, TLC

VARIABLES
    clients,        \* self.clients: entry array of the dict {username: (ip, conn)}
    chat_history,   \* self.chat_history
    running,        \* self.running
    main,           \* position of the main thread in start()
    mit,            \* dict iterator of the for loop of the main thread (line 170)
    pc,             \* position of each connection thread in handle_client
    username,       \* local `username` of each thread
    data,           \* local `data`: the line being dispatched
    it,             \* dict iterator of the running for-loop / comprehension
    bc,             \* frame of the running broadcast_message call
    acc,            \* list being built by the `list` comprehension
    out,            \* reply about to be written to the thread's own socket
    exc,            \* the exception a thread has just raised, with its line
    sent,           \* the message the last step delivered to a client, if any
    peerGone,       \* connections whose client has gone away
    closed,         \* connections on which the server called close()
    nlines,         \* command lines read so far
    joined,         \* history: threads that executed the insert of line 71
    seen            \* history: registry contents observed while a roster is built

vars == <<clients, chat_history, running, main, mit, pc, username, data, it, bc, acc,
          out, exc, sent, peerGone, closed, nlines, joined, seen>>

server == <<running, main, mit>>               \* state of the main thread
locals == <<username, data, it, bc, acc, out, exc>>

----------------------------------------------------------------------------
(* Bounds and input sets *)

MaxLines == 1       \* command lines the talking client sends

Conns == {"c1", "c2", "c3"}
Body  == <<"hi">>

\* What the three clients do.  c3 connects first and offers "carol", or
\* nothing at all; it sends no command and may go away at any moment.  c1 and
\* c2 connect once c3 is through its negotiation.  c1 offers "alice" and is
\* the one that sends command lines; c2 offers "alice" or "bob".
Offers(c) ==
    IF c = "c1" THEN {"alice"}
    ELSE IF c = "c2" THEN {"alice", "bob"}
    ELSE {"carol"}
First    == "c3"
Talkers  == {"c1"}
Droppers == {"c3"}
Mutes    == {"c3"}

IpOf(c) == IF c = "c3" THEN "10.0.0.2" ELSE "10.0.0.1"

None  == "<None>"   \* Python None
Empty == ""         \* the empty string

Commands ==
    { <<"list">>, <<"exit">>, <<"help">>, <<"broadcast">> \o Body,
      <<"send", "carol">>, <<"send", "carol">> \o Body }

----------------------------------------------------------------------------
(* self.clients as a CPython dict *)

Hole == [key |-> Empty, ip |-> Empty, conn |-> Empty]

Slots(d)   == { i \in 1..Len(d) : d[i] # Hole }
Used(d)    == Cardinality(Slots(d))
Keys(d)    == { d[i].key : i \in Slots(d) }
Has(d, k)  == k \in Keys(d)
SlotOf(d, k) == CHOOSE i \in Slots(d) : d[i].key = k
Get(d, k)  == d[SlotOf(d, k)]
RegConns(d) == { d[i].conn : i \in Slots(d) }
Items(d)   == { <<d[i].key, d[i].ip>> : i \in Slots(d) }

\* d[k] = (ip, c): an existing key keeps its slot, a new key is appended
Put(d, k, ip, c) ==
    IF Has(d, k)
    THEN [d EXCEPT ![SlotOf(d, k)] = [key |-> k, ip |-> ip, conn |-> c]]
    ELSE Append(d, [key |-> k, ip |-> ip, conn |-> c])

\* del d[k], for a key that is present
Del(d, k) == [d EXCEPT ![SlotOf(d, k)] = Hole]

\* iter(d.items())
NewIter(d) == [pos |-> 1, len |-> Used(d), used |-> Used(d)]
NoIter     == [pos |-> 0, len |-> 0, used |-> 0]

MinOf(S) == CHOOSE x \in S : \A y \in S : x <= y

\* next(iterator): "item" with its slot, "stop", or "RuntimeError"
ItNext(d, i) ==
    IF i.used # Used(d) THEN [res |-> "RuntimeError", idx |-> 0]
    ELSE LET cand == { j \in Slots(d) : j >= i.pos } IN
         IF cand = {} THEN [res |-> "stop", idx |-> 0]
         ELSE IF i.len = 0 THEN [res |-> "RuntimeError", idx |-> 0]
         ELSE [res |-> "item", idx |-> MinOf(cand)]

----------------------------------------------------------------------------
(* Messages and sockets *)

Msg(kind, user, body, roster) ==
    [kind |-> kind, user |-> user, body |-> body, roster |-> roster]

NoMsg        == Msg("none", Empty, <<>>, <<>>)
TakenMsg     == Msg("taken", Empty, <<>>, <<>>)
WelcomeMsg(u) == Msg("welcome", u, <<>>, <<>>)
JoinMsg(u)   == Msg("joined", u, <<>>, <<>>)
LeaveMsg(u)  == Msg("left", u, <<>>, <<>>)
BroadcastMsg(u, m) == Msg("broadcast", u, m, <<>>)
PrivateMsg(u, m)   == Msg("private", u, m, <<>>)
NotFoundMsg(t) == Msg("notfound", t, <<>>, <<>>)
\* the reply of line 118 given where line 116 stands
NotConnAsNotFound(t) == Msg("notfound", t, <<>>, <<>>)
NotConnMsg(t)  == Msg("notconnected", t, <<>>, <<>>)
UsageMsg     == Msg("usage", Empty, <<>>, <<>>)
HelpMsg      == Msg("help", Empty, <<>>, <<>>)
RosterMsg(r) == Msg("roster", Empty, <<>>, r)
ShutdownMsg  == Msg("shutdown", Empty, <<>>, <<>>)

\* outcome of conn.sendall on connection c
SendResult(c) ==
    IF c \in closed THEN "OSError"
    ELSE IF c \in peerGone THEN "ConnectionError"
    ELSE "ok"

\* a successful sendall by thread w: message m reaches the client of c
Delivery(c, m, w) == [to |-> c, msg |-> m, by |-> w]
NoSend == [to |-> Empty, msg |-> NoMsg, by |-> Empty]

\* store_message: the entry appended to chat_history
Entry(sender, text) == [sender |-> sender, text |-> text]
Label(w) == <<username[w], IpOf(w)>>

\* a store_message that puts the new entry in front of the log
store_message_front(log, sender, text) == <<Entry(sender, text)>> \o log

\* store_message, line 22: self.chat_history.append(entry), one list
\* operation, which the interpreter lock makes atomic
store_message(log, sender, text) == Append(log, Entry(sender, text))

\* where an exception raised inside broadcast_message takes the thread:
\* from a call inside the try block to the finally clause, from the call
\* inside the finally clause out of handle_client
Raise(w) == IF bc[w].ret = "fin_del" THEN "crashed" ELSE "fin_check"

\* an exception and the line of app.py that raised it
Exc(type, line) == [type |-> type, line |-> line]
NoExc == Exc("none", 0)

\* the line of handle_client that writes reply m to the thread's own socket
ReplyLine(m) ==
    CASE m.kind = "roster" -> 98
      [] m.kind = "notconnected" -> 116
      [] m.kind = "notfound" -> 118
      [] m.kind = "usage" -> 120
      [] OTHER -> 126

\* the frame of a pass that excludes nobody, as a call that leaves
\* exclude_username out would make
FrameForAll(d, msg, excl, ret) ==
    [msg |-> msg, excl |-> None, disc |-> <<>>, ret |-> ret,
     start |-> RegConns(d), got |-> {}, failed |-> {}, st |-> "run"]

\* the frame of a call broadcast_message(msg, exclude_username = excl) made
\* while the registry is d: its arguments, disconnected_users, the position
\* it returns to, and the history of the pass (which connections were
\* registered when it began, which received msg, which failed)
Frame(d, msg, excl, ret) ==
    [msg |-> msg, excl |-> excl, disc |-> <<>>, ret |-> ret,
     start |-> RegConns(d), got |-> {}, failed |-> {}, st |-> "run"]

NoFrame == [msg |-> NoMsg, excl |-> None, disc |-> <<>>, ret |-> "none",
            start |-> {}, got |-> {}, failed |-> {}, st |-> "none"]

\* registry contents a roster under construction may show
SeenAfter(d) ==
    [c \in Conns |-> IF pc[c] = "list_iter" THEN seen[c] \cup {Items(d)} ELSE seen[c]]

----------------------------------------------------------------------------
Init ==
    /\ clients = <<>>
    /\ chat_history = <<>>
    /\ running = FALSE
    /\ main = "init"
    /\ mit = NoIter
    /\ pc = [c \in Conns |-> "idle"]
    /\ username = [c \in Conns |-> None]
    /\ data = [c \in Conns |-> <<>>]
    /\ it = [c \in Conns |-> NoIter]
    /\ bc = [c \in Conns |-> NoFrame]
    /\ acc = [c \in Conns |-> <<>>]
    /\ out = [c \in Conns |-> NoMsg]
    /\ exc = [c \in Conns |-> NoExc]
    /\ sent = NoSend
    /\ peerGone = {}
    /\ closed = {}
    /\ nlines = 0
    /\ joined = {}
    /\ seen = [c \in Conns |-> {}]

----------------------------------------------------------------------------
(* start(): lines 146-164 *)

\* lines 146-150: bind, listen, self.running = True
Start ==
    /\ main = "init"
    /\ running' = TRUE
    /\ main' = "accept"
    /\ mit' = mit
    /\ sent' = NoSend
    /\ UNCHANGED <<clients, chat_history, pc, locals, peerGone, closed,
                   nlines, joined, seen>>

\* lines 157-164: accept a connection and start its thread
Accept(c) ==
    /\ main = "accept"
    /\ running
    /\ pc[c] = "idle"
    /\ c # First => pc[First] \in {"loop", "closed"}
    /\ pc' = [pc EXCEPT ![c] = "recv_name"]
    /\ sent' = NoSend
    /\ UNCHANGED <<clients, chat_history, server, locals, peerGone, closed,
                   nlines, joined, seen>>

\* the client of connection c goes away
PeerDrop(c) ==
    /\ pc[c] \notin {"idle", "closed", "crashed"}
    /\ c \notin peerGone
    /\ c \notin closed
    /\ c \in Droppers
    /\ peerGone' = peerGone \cup {c}
    /\ sent' = NoSend
    /\ UNCHANGED <<clients, chat_history, server, pc, locals, closed,
                   nlines, joined, seen>>

----------------------------------------------------------------------------
(* handle_client: negotiation, lines 56-79 *)

\* lines 58-66: a non-empty username arrives; if username in self.clients
RecvName(w, n) ==
    /\ pc[w] = "recv_name"
    /\ w \notin peerGone
    /\ username' = [username EXCEPT ![w] = n]
    /\ pc' = [pc EXCEPT ![w] = IF Has(clients, n) THEN "send_taken" ELSE "insert"]
    /\ sent' = NoSend
    /\ UNCHANGED <<clients, chat_history, server, data, it, bc, acc, out, exc,
                   peerGone, closed, nlines, joined, seen>>

\* lines 58-63: blank input or end of stream; close and return
RecvEmpty(w) ==
    /\ pc[w] = "recv_name"
    /\ w \in Mutes \/ w \in peerGone
    /\ username' = [username EXCEPT ![w] = Empty]
    /\ closed' = closed \cup {w}
    /\ pc' = [pc EXCEPT ![w] = "fin_check"]
    /\ sent' = NoSend
    /\ UNCHANGED <<clients, chat_history, server, data, it, bc, acc, out, exc,
                   peerGone, nlines, joined, seen>>

\* line 58 raises socket.timeout after 5 seconds; username stays None
RecvTimeout(w) ==
    /\ pc[w] = "recv_name"
    /\ w \in Mutes
    /\ pc' = [pc EXCEPT ![w] = "fin_check"]
    /\ exc' = [exc EXCEPT ![w] = Exc("timeout", 58)]
    /\ sent' = NoSend
    /\ UNCHANGED <<clients, chat_history, server, username, data, it, bc, acc, out,
                   peerGone, closed, nlines, joined, seen>>

\* lines 67-69: taken-name reply, close, return (into the finally clause)
SendTaken(w) ==
    /\ pc[w] = "send_taken"
    /\ IF SendResult(w) = "ok"
       THEN /\ sent' = Delivery(w, TakenMsg, w)
            /\ closed' = closed \cup {w}
            /\ UNCHANGED exc
       ELSE /\ sent' = NoSend
            /\ exc' = [exc EXCEPT ![w] = Exc(SendResult(w), 67)]
            /\ UNCHANGED closed
    /\ pc' = [pc EXCEPT ![w] = "fin_check"]
    /\ UNCHANGED <<clients, chat_history, server, username, data, it, bc, acc, out,
                   peerGone, nlines, joined, seen>>

\* line 71: self.clients[username] = (ip, conn)
Insert(w) ==
    /\ pc[w] = "insert"
    /\ clients' = Put(clients, username[w], IpOf(w), w)
    /\ joined' = joined \cup {w}
    /\ seen' = SeenAfter(clients')
    /\ pc' = [pc EXCEPT ![w] = "log_join"]
    /\ sent' = NoSend
    /\ UNCHANGED <<chat_history, server, locals, peerGone, closed, nlines>>

\* lines 72-75 and 36-37: log the join, call broadcast_message, whose for
\* statement creates the iterator over self.clients.items()
LogJoin(w) ==
    /\ pc[w] = "log_join"
    /\ chat_history' = store_message(chat_history, "Server", <<"joined">> \o Label(w))
    /\ bc' = [bc EXCEPT ![w] = Frame(clients, JoinMsg(username[w]), username[w], "welcome")]
    /\ it' = [it EXCEPT ![w] = NewIter(clients)]
    /\ pc' = [pc EXCEPT ![w] = "bc_iter"]
    /\ sent' = NoSend
    /\ UNCHANGED <<clients, server, username, data, acc, out, exc,
                   peerGone, closed, nlines, joined, seen>>

\* lines 75-79: broadcast_message has returned; the welcome line
Welcome(w) ==
    /\ pc[w] = "bc_ret"
    /\ bc[w].ret = "welcome"
    /\ IF SendResult(w) = "ok"
       THEN /\ sent' = Delivery(w, WelcomeMsg(username[w]), w)
            /\ pc' = [pc EXCEPT ![w] = "loop"]
            /\ UNCHANGED exc
       ELSE /\ sent' = NoSend
            /\ pc' = [pc EXCEPT ![w] = "fin_check"]
            /\ exc' = [exc EXCEPT ![w] = Exc(SendResult(w), 79)]
    /\ bc' = [bc EXCEPT ![w] = NoFrame]
    /\ it' = [it EXCEPT ![w] = NoIter]
    /\ UNCHANGED <<clients, chat_history, server, username, data, acc, out,
                   peerGone, closed, nlines, joined, seen>>

----------------------------------------------------------------------------
(* broadcast_message, lines 34-50 *)

\* lines 37-43: one iteration of the delivery loop
BcIter(w) ==
    /\ pc[w] = "bc_iter"
    /\ LET r == ItNext(clients, it[w]) IN
       CASE r.res = "RuntimeError" ->
              /\ bc' = [bc EXCEPT ![w].st = "raised"]
              /\ pc' = [pc EXCEPT ![w] = Raise(w)]
              /\ exc' = [exc EXCEPT ![w] = Exc("RuntimeError", 37)]
              /\ sent' = NoSend
              /\ UNCHANGED it
         [] r.res = "stop" ->
              /\ IF bc[w].disc = <<>>
                 THEN /\ pc' = [pc EXCEPT ![w] = "bc_ret"]
                      /\ bc' = [bc EXCEPT ![w].st = "ok"]
                 ELSE /\ pc' = [pc EXCEPT ![w] = "bc_rm_check"]
                      /\ UNCHANGED bc
              /\ sent' = NoSend
              /\ UNCHANGED <<it, exc>>
         [] r.res = "item" ->
              LET e == clients[r.idx] IN
              /\ it' = [it EXCEPT ![w] = [pos |-> r.idx + 1, len |-> it[w].len - 1,
                                          used |-> it[w].used]]
              /\ IF e.key = bc[w].excl
                 THEN /\ sent' = NoSend
                      /\ UNCHANGED <<pc, bc, exc>>
                 ELSE CASE SendResult(e.conn) = "ok" ->
                             /\ sent' = Delivery(e.conn, bc[w].msg, w)
                             /\ bc' = [bc EXCEPT ![w].got = @ \cup {e.conn}]
                             /\ UNCHANGED <<pc, exc>>
                        [] SendResult(e.conn) = "ConnectionError" ->
                             /\ bc' = [bc EXCEPT ![w].disc = Append(@, e.key),
                                                 ![w].failed = @ \cup {e.conn}]
                             /\ sent' = NoSend
                             /\ UNCHANGED <<pc, exc>>
                        [] SendResult(e.conn) = "OSError" ->
                             /\ bc' = [bc EXCEPT ![w].st = "raised"]
                             /\ pc' = [pc EXCEPT ![w] = Raise(w)]
                             /\ exc' = [exc EXCEPT ![w] = Exc("OSError", 41)]
                             /\ sent' = NoSend
    /\ UNCHANGED <<clients, chat_history, server, username, data, acc, out,
                   peerGone, closed, nlines, joined, seen>>

\* after one name of disconnected_users is done: the next one, or the end
BcRmNext(w) ==
    IF Len(bc[w].disc) > 1
    THEN /\ pc' = [pc EXCEPT ![w] = "bc_rm_check"]
         /\ bc' = [bc EXCEPT ![w].disc = Tail(@)]
    ELSE /\ pc' = [pc EXCEPT ![w] = "bc_ret"]
         /\ bc' = [bc EXCEPT ![w].disc = Tail(@), ![w].st = "ok"]

\* line 47: if username in self.clients
BcRmCheck(w) ==
    /\ pc[w] = "bc_rm_check"
    /\ IF Has(clients, Head(bc[w].disc))
       THEN /\ pc' = [pc EXCEPT ![w] = "bc_rm_close"]
            /\ UNCHANGED bc
       ELSE BcRmNext(w)
    /\ sent' = NoSend
    /\ UNCHANGED <<clients, chat_history, server, username, data, it, acc, out, exc,
                   peerGone, closed, nlines, joined, seen>>

\* line 49: self.clients[username][1].close()
BcRmClose(w) ==
    /\ pc[w] = "bc_rm_close"
    /\ IF Has(clients, Head(bc[w].disc))
       THEN /\ closed' = closed \cup {Get(clients, Head(bc[w].disc)).conn}
            /\ pc' = [pc EXCEPT ![w] = "bc_rm_del"]
            /\ UNCHANGED <<bc, exc>>
       ELSE /\ pc' = [pc EXCEPT ![w] = Raise(w)]
            /\ bc' = [bc EXCEPT ![w].st = "raised"]
            /\ exc' = [exc EXCEPT ![w] = Exc("KeyError", 49)]
            /\ UNCHANGED closed
    /\ sent' = NoSend
    /\ UNCHANGED <<clients, chat_history, server, username, data, it, acc, out,
                   peerGone, nlines, joined, seen>>

\* line 50: del self.clients[username]
BcRmDel(w) ==
    /\ pc[w] = "bc_rm_del"
    /\ IF Has(clients, Head(bc[w].disc))
       THEN /\ clients' = Del(clients, Head(bc[w].disc))
            /\ seen' = SeenAfter(clients')
            /\ BcRmNext(w)
            /\ UNCHANGED exc
       ELSE /\ pc' = [pc EXCEPT ![w] = Raise(w)]
            /\ bc' = [bc EXCEPT ![w].st = "raised"]
            /\ exc' = [exc EXCEPT ![w] = Exc("KeyError", 50)]
            /\ UNCHANGED <<clients, seen>>
    /\ sent' = NoSend
    /\ UNCHANGED <<chat_history, server, username, data, it, acc, out,
                   peerGone, closed, nlines, joined>>

\* line 103: broadcast_message has returned; back to the head of the loop
BcRet(w) ==
    /\ pc[w] = "bc_ret"
    /\ bc[w].ret = "loop"
    /\ pc' = [pc EXCEPT ![w] = "loop"]
    /\ bc' = [bc EXCEPT ![w] = NoFrame]
    /\ it' = [it EXCEPT ![w] = NoIter]
    /\ sent' = NoSend
    /\ UNCHANGED <<clients, chat_history, server, username, data, acc, out, exc,
                   peerGone, closed, nlines, joined, seen>>

----------------------------------------------------------------------------
(* handle_client: the read loop, lines 81-131 *)

\* a dispatch that takes parts[2] of a send line without the length test of
\* line 107, so that a line of two tokens raises
DispatchUnchecked(d) ==
    IF d = <<"list">> THEN "list_iter"
    ELSE IF Len(d) >= 2 /\ Head(d) = "broadcast" THEN "bc_iter"
    ELSE IF Len(d) >= 2 /\ Head(d) = "send"
         THEN (IF Len(d) >= 3 THEN "send_check" ELSE "fin_check")
    ELSE IF d = <<"exit">> THEN "fin_check"
    ELSE "reply"

\* the position the dispatch of lines 94-126 leads to
Dispatch(d) ==
    IF d = <<"list">> THEN "list_iter"
    ELSE IF Len(d) >= 2 /\ Head(d) = "broadcast" THEN "bc_iter"
    ELSE IF Len(d) >= 2 /\ Head(d) = "send"
         THEN (IF Len(d) >= 3 THEN "send_check" ELSE "reply")
    ELSE IF d = <<"exit">> THEN "fin_check"
    ELSE "reply"

\* lines 84-126: a line arrives, is logged and dispatched, up to the first
\* access to the registry or to a socket that the command makes
ReadLine(w, d) ==
    /\ pc[w] = "loop"
    /\ running
    /\ w \notin closed
    /\ w \notin peerGone
    /\ w \in Talkers
    /\ nlines < MaxLines
    /\ nlines' = nlines + 1
    /\ chat_history' = store_message(chat_history, Label(w), d)
    /\ pc' = [pc EXCEPT ![w] = Dispatch(d)]
    /\ data' = [data EXCEPT ![w] = IF Dispatch(d) = "send_check" THEN d ELSE <<>>]
    /\ bc' = [bc EXCEPT ![w] =
                IF Dispatch(d) = "bc_iter"
                THEN Frame(clients, BroadcastMsg(username[w], Tail(d)), username[w], "loop")
                ELSE @]
    /\ it' = [it EXCEPT ![w] =
                IF Dispatch(d) \in {"bc_iter", "list_iter"} THEN NewIter(clients) ELSE @]
    /\ seen' = [seen EXCEPT ![w] = IF Dispatch(d) = "list_iter" THEN {Items(clients)} ELSE @]
    /\ out' = [out EXCEPT ![w] =
                IF Dispatch(d) = "reply"
                THEN (IF Len(d) >= 2 /\ Head(d) = "send" THEN UsageMsg ELSE HelpMsg)
                ELSE @]
    /\ sent' = NoSend
    /\ UNCHANGED <<clients, server, username, acc, exc, peerGone, closed,
                   joined>>

\* lines 81-88, 130-134: the loop ends because the client is gone (empty
\* read or reset), because another thread closed the socket (select raises),
\* or because the running flag is cleared
LoopFail(w) ==
    /\ pc[w] = "loop"
    /\ (w \in peerGone \/ w \in closed \/ ~running)
    /\ pc' = [pc EXCEPT ![w] = "fin_check"]
    /\ exc' = [exc EXCEPT ![w] = IF running /\ w \in closed
                                  THEN Exc("ValueError", 84) ELSE NoExc]
    /\ sent' = NoSend
    /\ UNCHANGED <<clients, chat_history, server, username, data, it, bc, acc, out,
                   peerGone, closed, nlines, joined, seen>>

\* lines 95-97: one iteration of the comprehension over self.clients.items()
ListIter(w) ==
    /\ pc[w] = "list_iter"
    /\ LET r == ItNext(clients, it[w]) IN
       CASE r.res = "RuntimeError" ->
              /\ pc' = [pc EXCEPT ![w] = "fin_check"]
              /\ exc' = [exc EXCEPT ![w] = Exc("RuntimeError", 96)]
              /\ UNCHANGED <<it, acc, out>>
         [] r.res = "stop" ->
              /\ out' = [out EXCEPT ![w] = RosterMsg(acc[w])]
              /\ pc' = [pc EXCEPT ![w] = "reply"]
              /\ UNCHANGED <<it, acc, exc>>
         [] r.res = "item" ->
              /\ it' = [it EXCEPT ![w] = [pos |-> r.idx + 1, len |-> it[w].len - 1,
                                          used |-> it[w].used]]
              /\ acc' = [acc EXCEPT ![w] = Append(@, <<clients[r.idx].key, clients[r.idx].ip>>)]
              /\ UNCHANGED <<pc, out, exc>>
    /\ sent' = NoSend
    /\ UNCHANGED <<clients, chat_history, server, username, data, bc,
                   peerGone, closed, nlines, joined, seen>>

\* lines 98, 116, 118, 120, 126: conn.sendall(reply) on the thread's own
\* socket, then back to the head of the loop
Reply(w) ==
    /\ pc[w] = "reply"
    /\ IF SendResult(w) = "ok"
       THEN /\ sent' = Delivery(w, out[w], w)
            /\ pc' = [pc EXCEPT ![w] = "loop"]
            /\ data' = [data EXCEPT ![w] = <<>>]
            /\ it' = [it EXCEPT ![w] = NoIter]
            /\ acc' = [acc EXCEPT ![w] = <<>>]
            /\ out' = [out EXCEPT ![w] = NoMsg]
            /\ seen' = [seen EXCEPT ![w] = {}]
            /\ UNCHANGED exc
       ELSE /\ sent' = NoSend
            /\ pc' = [pc EXCEPT ![w] = "fin_check"]
            /\ exc' = [exc EXCEPT ![w] = Exc(SendResult(w), ReplyLine(out[w]))]
            /\ UNCHANGED <<data, it, acc, out, seen>>
    /\ UNCHANGED <<clients, chat_history, server, username, bc,
                   peerGone, closed, nlines, joined>>

\* line 109: if target_user in self.clients
SendCheck(w) ==
    /\ pc[w] = "send_check"
    /\ IF Has(clients, data[w][2])
       THEN /\ pc' = [pc EXCEPT ![w] = "send_priv"]
            /\ UNCHANGED out
       ELSE /\ pc' = [pc EXCEPT ![w] = "reply"]
            /\ out' = [out EXCEPT ![w] = NotFoundMsg(data[w][2])]
    /\ sent' = NoSend
    /\ UNCHANGED <<clients, chat_history, server, username, data, it, bc, acc, exc,
                   peerGone, closed, nlines, joined, seen>>

\* a write to the sender's own socket where the target's was meant
own_conn(w) == w

\* line 110: _, t_conn = self.clients[target_user]
t_conn(w) == Get(clients, data[w][2]).conn

\* lines 110-116: look the target up and write to its socket
SendPriv(w) ==
    /\ pc[w] = "send_priv"
    /\ IF ~Has(clients, data[w][2])
       THEN /\ pc' = [pc EXCEPT ![w] = "fin_check"]
            /\ exc' = [exc EXCEPT ![w] = Exc("KeyError", 110)]
            /\ sent' = NoSend
            /\ UNCHANGED <<out, data>>
       ELSE LET t == t_conn(w) IN
            CASE SendResult(t) = "ok" ->
                   /\ sent' = Delivery(t, PrivateMsg(username[w], SubSeq(data[w], 3, Len(data[w]))), w)
                   /\ pc' = [pc EXCEPT ![w] = "loop"]
                   /\ data' = [data EXCEPT ![w] = <<>>]
                   /\ UNCHANGED <<out, exc>>
              [] SendResult(t) = "ConnectionError" ->
                   /\ out' = [out EXCEPT ![w] = NotConnMsg(data[w][2])]
                   /\ pc' = [pc EXCEPT ![w] = "reply"]
                   /\ sent' = NoSend
                   /\ UNCHANGED <<data, exc>>
              [] SendResult(t) = "OSError" ->
                   /\ pc' = [pc EXCEPT ![w] = "fin_check"]
                   /\ exc' = [exc EXCEPT ![w] = Exc("OSError", 112)]
                   /\ sent' = NoSend
                   /\ UNCHANGED <<out, data>>
    /\ UNCHANGED <<clients, chat_history, server, username, it, bc, acc,
                   peerGone, closed, nlines, joined, seen>>

----------------------------------------------------------------------------
(* handle_client: the finally clause, lines 135-142 *)

\* line 136: if username and username in self.clients; the locals of the
\* try block are dead from here on
FinCheck(w) ==
    /\ pc[w] = "fin_check"
    /\ pc' = [pc EXCEPT ![w] =
                IF username[w] \notin {None, Empty} /\ Has(clients, username[w])
                THEN "fin_log" ELSE "fin_close"]
    /\ data' = [data EXCEPT ![w] = <<>>]
    /\ it' = [it EXCEPT ![w] = NoIter]
    /\ bc' = [bc EXCEPT ![w] = NoFrame]
    /\ acc' = [acc EXCEPT ![w] = <<>>]
    /\ out' = [out EXCEPT ![w] = NoMsg]
    /\ exc' = [exc EXCEPT ![w] = NoExc]
    /\ seen' = [seen EXCEPT ![w] = {}]
    /\ sent' = NoSend
    /\ UNCHANGED <<clients, chat_history, server, username,
                   peerGone, closed, nlines, joined>>

\* lines 137-140 and 36-37: log the leave, call broadcast_message
FinLog(w) ==
    /\ pc[w] = "fin_log"
    /\ chat_history' = store_message(chat_history, "Server", <<"left">> \o Label(w))
    /\ bc' = [bc EXCEPT ![w] = Frame(clients, LeaveMsg(username[w]), username[w], "fin_del")]
    /\ it' = [it EXCEPT ![w] = NewIter(clients)]
    /\ pc' = [pc EXCEPT ![w] = "bc_iter"]
    /\ sent' = NoSend
    /\ UNCHANGED <<clients, server, username, data, acc, out, exc,
                   peerGone, closed, nlines, joined, seen>>

\* lines 140-141: broadcast_message has returned; del self.clients[username]
FinDel(w) ==
    /\ pc[w] = "bc_ret"
    /\ bc[w].ret = "fin_del"
    /\ IF Has(clients, username[w])
       THEN /\ clients' = Del(clients, username[w])
            /\ seen' = SeenAfter(clients')
            /\ pc' = [pc EXCEPT ![w] = "fin_close"]
            /\ UNCHANGED exc
       ELSE /\ pc' = [pc EXCEPT ![w] = "crashed"]
            /\ exc' = [exc EXCEPT ![w] = Exc("KeyError", 141)]
            /\ UNCHANGED <<clients, seen>>
    /\ bc' = [bc EXCEPT ![w] = NoFrame]
    /\ it' = [it EXCEPT ![w] = NoIter]
    /\ sent' = NoSend
    /\ UNCHANGED <<chat_history, server, username, data, acc, out,
                   peerGone, closed, nlines, joined>>

\* line 142: conn.close()
FinClose(w) ==
    /\ pc[w] = "fin_close"
    /\ closed' = closed \cup {w}
    /\ pc' = [pc EXCEPT ![w] = "closed"]
    /\ sent' = NoSend
    /\ UNCHANGED <<clients, chat_history, server, locals, peerGone,
                   nlines, joined, seen>>

----------------------------------------------------------------------------
(* start(): the shutdown path, lines 165-177, and the end of the process *)

\* lines 165-170: KeyboardInterrupt in the accept loop; the finally clause
\* clears self.running and starts to iterate self.clients.items()
Interrupt ==
    /\ main = "accept"
    /\ running
    /\ running' = FALSE
    /\ main' = "shut_iter"
    /\ mit' = NewIter(clients)
    /\ sent' = NoSend
    /\ UNCHANGED <<clients, chat_history, pc, locals, peerGone, closed,
                   nlines, joined, seen>>

\* lines 170-176: one iteration of the for loop: sendall of the goodbye and
\* conn.close(), any exception of the two swallowed by the bare except (a
\* failed sendall skips the close).  The for statement itself is outside the
\* try: its RuntimeError leaves start() before line 176.
ShutIter ==
    /\ main = "shut_iter"
    /\ LET r == ItNext(clients, mit) IN
       CASE r.res = "RuntimeError" ->
              /\ main' = "crashed"
              /\ mit' = NoIter
              /\ sent' = NoSend
              /\ UNCHANGED closed
         [] r.res = "stop" ->
              /\ main' = "stopped"
              /\ mit' = NoIter
              /\ sent' = NoSend
              /\ UNCHANGED closed
         [] r.res = "item" ->
              LET c == clients[r.idx].conn IN
              /\ mit' = [pos |-> r.idx + 1, len |-> mit.len - 1, used |-> mit.used]
              /\ UNCHANGED main
              /\ IF SendResult(c) = "ok"
                 THEN /\ sent' = Delivery(c, ShutdownMsg, "main")
                      /\ closed' = closed \cup {c}
                 ELSE /\ sent' = NoSend
                      /\ UNCHANGED closed
    /\ UNCHANGED <<clients, chat_history, running, pc, locals, peerGone,
                   nlines, joined, seen>>

\* a handler thread that has neither returned nor died of an exception
Alive(w) == pc[w] \notin {"idle", "closed", "crashed", "killed"}

\* lines 162 and 192: start() has returned or raised and the main thread
\* ends; the handler threads are daemon threads, which nobody joins, so the
\* interpreter exits and they stop wherever they are
Exit ==
    /\ main \in {"stopped", "crashed"}
    /\ main' = "exited"
    /\ pc' = [w \in Conns |-> IF Alive(w) THEN "killed" ELSE pc[w]]
    /\ sent' = NoSend
    /\ UNCHANGED <<clients, chat_history, running, mit, locals, peerGone,
                   closed, nlines, joined, seen>>

----------------------------------------------------------------------------
Next ==
    \/ Start
    \/ \E c \in Conns : Accept(c)
    \/ \E c \in Conns : PeerDrop(c)
    \/ \E w \in Conns : \E n \in Offers(w) : RecvName(w, n)
    \/ \E w \in Conns : RecvEmpty(w)
    \/ \E w \in Conns : RecvTimeout(w)
    \/ \E w \in Conns : SendTaken(w)
    \/ \E w \in Conns : Insert(w)
    \/ \E w \in Conns : LogJoin(w)
    \/ \E w \in Conns : Welcome(w)
    \/ \E w \in Conns : BcIter(w)
    \/ \E w \in Conns : BcRmCheck(w)
    \/ \E w \in Conns : BcRmClose(w)
    \/ \E w \in Conns : BcRmDel(w)
    \/ \E w \in Conns : BcRet(w)
    \/ \E w \in Conns : \E d \in Commands : ReadLine(w, d)
    \/ \E w \in Conns : LoopFail(w)
    \/ \E w \in Conns : ListIter(w)
    \/ \E w \in Conns : Reply(w)
    \/ \E w \in Conns : SendCheck(w)
    \/ \E w \in Conns : SendPriv(w)
    \/ \E w \in Conns : FinCheck(w)
    \/ \E w \in Conns : FinLog(w)
    \/ \E w \in Conns : FinDel(w)
    \/ \E w \in Conns : FinClose(w)

Spec == Init /\ [][Next]_vars

\* the steps of the thread serving connection w once its client has sent
\* what it sends
Worker(w) ==
    \/ RecvTimeout(w)
    \/ SendTaken(w)
    \/ Insert(w)
    \/ LogJoin(w)
    \/ Welcome(w)
    \/ BcIter(w)
    \/ LoopFail(w)
    \/ FinCheck(w)
    \/ FinLog(w)
    \/ FinDel(w)
    \/ FinClose(w)

\* no handler is in its negotiation or in its cleanup
Settled == \A c \in Conns : pc[c] \in {"idle", "loop", "closed", "crashed"}

\* the server with clients that connect, offer a name and then stay silent,
\* until the operator interrupts it at a moment when every session is
\* waiting for input
NextShutdown ==
    \/ Start
    \/ \E c \in Conns : Accept(c)
    \/ \E w \in Conns : \E n \in Offers(w) : RecvName(w, n)
    \/ \E w \in Conns : RecvEmpty(w)
    \/ \E w \in Conns : Worker(w)
    \/ Settled /\ Interrupt
    \/ ShutIter
    \/ Exit

\* every thread that can take a step eventually takes one
Shutdown ==
    /\ Init
    /\ [][NextShutdown]_vars
    /\ \A w \in Conns : WF_vars(Worker(w))
    /\ WF_vars(ShutIter)
    /\ WF_vars(Exit)

----------------------------------------------------------------------------
(* Vocabulary of the properties *)

\* the handler of connection c is in the read loop of lines 81-131
Active(c) ==
    \/ pc[c] \in {"loop", "list_iter", "reply", "send_check", "send_priv"}
    \/ /\ pc[c] \in {"bc_iter", "bc_rm_check", "bc_rm_close", "bc_rm_del", "bc_ret"}
       /\ bc[c].ret = "loop"

\* the socket of connection c can still be written to
Working(c) == c \notin closed /\ c \notin peerGone

\* the key under which connection c is registered in d
KeyOf(d, c) == (CHOOSE i \in Slots(d) : d[i].conn = c)

\* the call of broadcast_message made by thread w is over
PassOver(w) == bc[w].st \in {"ok", "raised"}

\* the connections that were registered when the pass of w began and still
\* are, that work, and whose key the pass does not exclude
Due(w) ==
    { c \in bc[w].start \cap RegConns(clients) :
        Working(c) /\ clients[KeyOf(clients, c)].key # bc[w].excl }

RosterSet(r) == { r[i] : i \in 1..Len(r) }

LeaveLogged(k, ip) ==
    \E j \in 1..Len(chat_history) :
        chat_history[j] = Entry("Server", <<"left", k, ip>>)

JoinLogged(k, ip) ==
    \E j \in 1..Len(chat_history) :
        chat_history[j] = Entry("Server", <<"joined", k, ip>>)

----------------------------------------------------------------------------
(* Properties *)

\* C1: of the handlers that offered the same name, at most one is ever in
\* the read loop (an active session) under that name.
C1_UniqueActiveName ==
    \A a, b \in Conns :
        (a # b /\ Active(a) /\ Active(b)) => username[a] # username[b]

\* C2: when the pass of a broadcast command issued by U is over, every
\* session registered under another name with a working connection has
\* received the message, and U's own connection has not.
C2_BroadcastReachesOthers ==
    \A w \in Conns :
        (bc[w].ret = "loop" /\ PassOver(w)) =>
            /\ w \notin bc[w].got
            /\ Due(w) \subseteq bc[w].got

\* the step of lines 110-114 for a registered target: the private message is
\* written to the target's connection and the command is over
C3_AsStatedStep ==
    \A w \in Conns :
        (pc[w] = "send_priv" /\ pc'[w] # "send_priv" /\ Has(clients, data[w][2])) =>
            /\ sent' = Delivery(Get(clients, data[w][2]).conn,
                                PrivateMsg(username[w], SubSeq(data[w], 3, Len(data[w]))), w)
            /\ pc'[w] = "loop"

\* C3 as stated: once the target of a send command is found registered, the
\* command ends with the private message delivered to the target's
\* connection and no reply to the sender.
C3_DeliveredWheneverRegistered == [][C3_AsStatedStep]_vars

\* the steps of a send command: the write to a registered target whose
\* socket works, the check of line 109 that finds no target, and the
\* not-found reply
C3_PrivateStep ==
    \A w \in Conns :
        /\ (/\ pc[w] = "send_priv" /\ pc'[w] # "send_priv"
            /\ Has(clients, data[w][2])
            /\ SendResult(Get(clients, data[w][2]).conn) = "ok") =>
               /\ sent' = Delivery(Get(clients, data[w][2]).conn,
                                   PrivateMsg(username[w], SubSeq(data[w], 3, Len(data[w]))), w)
               /\ pc'[w] = "loop"
               /\ clients' = clients
        /\ (pc[w] = "send_check" /\ pc'[w] # "send_check" /\ ~Has(clients, data[w][2])) =>
               /\ sent' = NoSend
               /\ pc'[w] = "reply"
               /\ out'[w] = NotFoundMsg(data[w][2])
               /\ clients' = clients
        /\ (pc[w] = "reply" /\ pc'[w] # "reply" /\ out[w].kind = "notfound") =>
               /\ clients' = clients
               /\ IF SendResult(w) = "ok"
                  THEN sent' = Delivery(w, NotFoundMsg(data[w][2]), w) /\ pc'[w] = "loop"
                  ELSE sent' = NoSend

\* C3 amended: when the target of a send command is registered and the write
\* to its connection succeeds, that write is the only one of the command: it
\* carries the private message to the target's connection, and the sender
\* gets no reply.  When the target is not registered, the only write of the
\* command is the not-found reply to the sender, and the registry is
\* unchanged.
C3_PrivateDelivery == [][C3_PrivateStep]_vars

\* a private message has just been written to the target's connection
C3_Witness ==
    /\ sent.msg.kind = "private"
    /\ sent.by = "c1"
    /\ sent.to = "c3"
    /\ pc["c1"] = "loop"

\* C4: when a pass in which delivery to a session X failed is over, X is out
\* of the registry and its connection is closed, and every other
\* non-excluded session registered and working throughout the pass has
\* received the message.
C4_EvictionOnFailure ==
    \A w \in Conns :
        (PassOver(w) /\ bc[w].failed # {}) =>
            /\ \A x \in bc[w].failed : x \notin RegConns(clients) /\ x \in closed
            /\ Due(w) \subseteq bc[w].got

\* C5: removing a username never raises: no KeyError in the removal of a
\* broadcast pass (lines 49-50) nor in the cleanup of handle_client (line
\* 141), which therefore goes on to close the connection.
C5_RemovalNeverRaises ==
    \A w \in Conns :
        ~(exc[w].type = "KeyError" /\ exc[w].line \in {49, 50, 141})

\* a step that takes entries out of the registry
C6_RemovalStep ==
    \A i \in Slots(clients) \ Slots(clients') :
        /\ LeaveLogged(clients[i].key, clients[i].ip)
        /\ \E w \in Conns :
              /\ bc[w].msg = LeaveMsg(clients[i].key)
              /\ bc[w].st = "ok"
              /\ Due(w) \subseteq bc[w].got

\* C6: whenever an entry leaves the registry, the leave of that session is in
\* the log and a completed pass has announced it to every other registered
\* session with a working connection.
C6_LeaveAnnounced == [][C6_RemovalStep]_vars

\* C7: at the moment a session receives the leave announcement of U, the
\* name U is no longer in the registry.
C7_LeaveAfterRemoval ==
    sent.msg.kind = "left" => ~Has(clients, sent.msg.user)

\* a step that takes a handler into the read loop, or delivers a join
\* announcement
C8_JoinStep ==
    /\ \A w \in Conns :
          (~Active(w) /\ pc'[w] = "loop") =>
              /\ w \in joined
              /\ JoinLogged(username[w], IpOf(w))
              /\ bc[w].msg = JoinMsg(username[w])
              /\ bc[w].st = "ok"
              /\ Due(w) \subseteq bc[w].got
              /\ w \notin bc[w].got
              /\ sent' = Delivery(w, WelcomeMsg(username[w]), w)
    /\ sent'.msg.kind = "joined" => sent'.to # sent'.by

C9_RejectedStep ==
    \A w \in Conns \ joined' :
        pc'[w] # pc[w] =>
            /\ clients' = clients
            /\ sent'.by = w => sent'.to = w

\* C9: a handler that never registered a name changes nothing in the
\* registry and writes to no connection but its own.
C9_FailedNegotiationIsInert == [][C9_RejectedStep]_vars

\* C10: the roster the list command is about to send names exactly the keys
\* the registry held at some moment of the command, the caller among them, and
\* the command always gets as far as the reply.
C10_RosterAccurate ==
    \A w \in Conns :
        /\ (pc[w] = "reply" /\ out[w].kind = "roster") =>
              /\ RosterSet(out[w].roster) \in seen[w]
              /\ <<username[w], IpOf(w)>> \in RosterSet(out[w].roster)
              /\ Cardinality(RosterSet(out[w].roster)) = Len(out[w].roster)
        /\ exc[w] # Exc("RuntimeError", 96)

\* the connection on which the next step of thread w calls sendall (w stands
\* at that call, or at the for statement that hands it the connection), or
\* Empty
NextWrite(w) ==
    CASE pc[w] \in {"send_taken", "reply"} -> w
      [] pc[w] = "bc_ret" /\ bc[w].ret = "welcome" -> w
      [] pc[w] = "send_priv" /\ Has(clients, data[w][2]) -> t_conn(w)
      [] pc[w] = "bc_iter" ->
            LET r == ItNext(clients, it[w]) IN
            IF r.res = "item" /\ clients[r.idx].key # bc[w].excl
            THEN clients[r.idx].conn ELSE Empty
      [] OTHER -> Empty

\* C11: no two threads are ever at a write to the same connection.
C11_WritesSerialized ==
    \A a, b \in Conns :
        (a # b /\ NextWrite(a) # Empty) => NextWrite(a) # NextWrite(b)

\* the exceptions handle_client does not expect: everything but a timeout and
\* the connection errors of lines 42, 115 and 130
Unexpected == {"RuntimeError", "KeyError", "OSError", "ValueError"}

\* C12: an unexpected error raised while a connection is served is caught at
\* line 133 and takes the worker into its cleanup, which unregisters and
\* closes; it never leaves handle_client with the cleanup undone.
C12_ErrorContained ==
    \A w \in Conns :
        exc[w].type \in Unexpected => pc[w] = "fin_check"

\* a line that is none of list, exit, broadcast <msg>, send <user> <msg>
Malformed(d) ==
    /\ d \notin {<<"list">>, <<"exit">>}
    /\ ~(Head(d) = "broadcast" /\ Len(d) >= 2)
    /\ ~(Head(d) = "send" /\ Len(d) >= 3)

\* the steps of a malformed line: thread w reads and logs it, then writes
\* the reply to its own connection
C13_MalformedStep ==
    \A w \in Conns :
        /\ (/\ pc[w] = "loop" /\ pc'[w] # "loop"
            /\ nlines' # nlines
            /\ Malformed(chat_history'[Len(chat_history')].text)) =>
               /\ pc'[w] = "reply"
               /\ out'[w] \in {UsageMsg, HelpMsg}
               /\ clients' = clients
               /\ sent' = NoSend
        /\ (/\ pc[w] = "reply" /\ pc'[w] # "reply"
            /\ out[w].kind \in {"usage", "help"}
            /\ SendResult(w) = "ok") =>
               /\ sent' = Delivery(w, out[w], w)
               /\ pc'[w] = "loop"
               /\ clients' = clients

C14_CooperativeShutdown ==
    /\ \A w \in Conns : (~running /\ pc[w] = "loop") ~> (pc[w] = "closed")
    /\ [][main # "init" /\ ~running =>
            \A c \in Conns : pc[c] = "idle" => pc'[c] = "idle"]_vars

\* C15: the message log is append-only: in every step the log before the
\* step is a prefix of the log after it, whichever threads append.
C15_LogAppendOnly ==
    [][/\ Len(chat_history') >= Len(chat_history)
       /\ SubSeq(chat_history', 1, Len(chat_history)) = chat_history]_vars

\* two handlers stand at their call of store_message, with entries of
\* other threads already in the log
C15_Witness ==
    /\ Len(chat_history) >= 2
    /\ \E a, b \in Conns :
          /\ a # b
          /\ pc[a] \in {"log_join", "fin_log"}
          /\ pc[b] \in {"log_join", "fin_log"}

\* C16: a pass of broadcast_message, whoever calls it, is never ended by the
\* registry changing under its iteration, and once it has returned every
\* connection that was registered when it began and still is, under a name
\* the pass does not exclude, has received the message.
C16_PassToleratesChanges ==
    \A w \in Conns :
        /\ ~(bc[w].st = "raised" /\ exc[w] = Exc("RuntimeError", 37))
        /\ bc[w].st = "ok" => Due(w) \subseteq bc[w].got

\* the steps of a private send whose target is registered and whose write
\* fails with a connection error: the write of line 112, then the reply of
\* line 116 on the sender's own connection
C17_BrokenTargetStep ==
    \A w \in Conns :
        /\ (/\ pc[w] = "send_priv" /\ pc'[w] # "send_priv"
            /\ Has(clients, data[w][2])
            /\ Get(clients, data[w][2]).conn \in peerGone \ closed) =>
               /\ pc'[w] = "reply"
               /\ out'[w] = Msg("notconnected", data[w][2], <<>>, <<>>)
               /\ clients' = clients
               /\ closed' = closed
               /\ sent' = NoSend
        /\ (/\ pc[w] = "reply" /\ pc'[w] # "reply"
            /\ out[w].kind = "notconnected"
            /\ Working(w)) =>
               /\ sent' = Delivery(w, out[w], w)
               /\ pc'[w] = "loop"
               /\ clients' = clients
               /\ closed' = closed

\* C17: when B sends to a registered A whose connection fails with a
\* connection error, B is told that A is not connected, B's handler is back
\* in its read loop, and the command has neither removed A's entry nor
\* closed A's connection.
C17_BrokenTargetReported == [][C17_BrokenTargetStep]_vars

\* alice has just been told that carol is not connected; alice is in her
\* loop and carol, whose client is gone, is still registered
C17_Witness ==
    /\ sent = Delivery("c1", Msg("notconnected", "carol", <<>>, <<>>), "c1")
    /\ pc["c1"] = "loop"
    /\ Has(clients, "carol")
    /\ Get(clients, "carol").conn \in peerGone
    /\ Has(clients, "alice")

\* a step of thread w that takes connections out of the registry takes out
\* w's own in w's cleanup, or one to which the running pass of w failed to
\* deliver; a connection the step closes is w's own or one of the latter
C18_ProvenanceStep ==
    \A w \in Conns :
        pc'[w] # pc[w] =>
            /\ \A c \in RegConns(clients) \ RegConns(clients') :
                  \/ pc[w] = "bc_ret" /\ bc[w].ret = "fin_del" /\ c = w
                  \/ pc[w] = "bc_rm_del" /\ c \in bc[w].failed
            /\ \A c \in closed' \ closed :
                  \/ c = w
                  \/ pc[w] = "bc_rm_close" /\ c \in bc[w].failed

\* C18: an entry leaves the registry, and its connection is closed, only
\* through the cleanup of the handler that serves that connection or through
\* a pass whose delivery to that connection failed.
C18_RemovalProvenance == [][C18_ProvenanceStep]_vars

\* C19: once a handler has left handle_client, by return or by exception,
\* the registry holds no entry with its connection and the connection is
\* closed.
C19_NoStaleEntry ==
    \A w \in Conns :
        pc[w] \in {"closed", "crashed"} =>
            /\ w \notin RegConns(clients)
            /\ w \in closed

====
